---- MODULE Spec2Model ----
(***************************************************************************)
(* The review session and the Socratic dialogue session of the study-tool  *)
(* browser client (src/frontend/app.js).                                    *)
(*                                                                         *)
(* The client is single-threaded and event-driven.  An async handler runs   *)
(* synchronously up to its next `await api(...)`; the response resumes it   *)
(* later, and any other handler may run in between.  Every handler          *)
(* invocation that reaches an await is a record of `calls`; a response      *)
(* action resumes one such record with an outcome the backend chooses.      *)
(*                                                                         *)
(* Text is a sequence of chunks (strings); a numeral is written one         *)
(* character a chunk and the chunk " " is white space, so that              *)
(* String.prototype.trim, String(n) and Number(s) are computed and not      *)
(* assumed.                                                                 *)
(***************************************************************************)
EXTENDS Integers, Sequences, FiniteSets

\* ------------------------------------------------------------- bounds
\* Card identifiers the backend hands out are 1..MaxCardId.
MaxCardId == 2
\* Handler invocations that reach the network, per behaviour.
MaxCalls == 3

\* ------------------------------------------------------------ strings
\* A numeral is a sequence of one-character chunks.
Digits == <<"0", "1", "2", "3", "4", "5", "6", "7", "8", "9">>

\* The characters String.prototype.trim and Number strip at both ends:
\* WhiteSpace and LineTerminator of the language.  Space, tab, line feed,
\* carriage return and form feed, then U+000B (vertical tab), U+00A0
\* (no-break space), U+1680 and U+FEFF are written as the character itself.
\* A string of this module cannot contain U+2000 to U+200A, U+2028, U+2029,
\* U+202F, U+205F or U+3000, so each of those is the chunk that names its
\* code point.
WhiteSpace ==
  {" ", "\t", "\n", "\r", "\f", "", " ", " ", "﻿",
   "U+2000", "U+2001", "U+2002", "U+2003", "U+2004", "U+2005",
   "U+2006", "U+2007", "U+2008", "U+2009", "U+200A",
   "U+2028", "U+2029", "U+202F", "U+205F", "U+3000"}

RECURSIVE ToString(_)
\* String(n) for a natural number: its decimal numeral.
ToString(n) ==
  IF n < 10 THEN <<Digits[n + 1]>>
  ELSE ToString(n \div 10) \o <<Digits[(n % 10) + 1]>>

IsDigit(ch) == \E d \in 0..9 : Digits[d + 1] = ch

\* String.prototype.trimStart: the text from its first chunk that is no
\* white space.
TrimStart(s) ==
  IF \A i \in 1..Len(s) : s[i] \in WhiteSpace THEN <<>>
  ELSE SubSeq(s, CHOOSE i \in 1..Len(s) :
                   /\ s[i] \notin WhiteSpace
                   /\ \A j \in 1..(i - 1) : s[j] \in WhiteSpace,
              Len(s))

\* String.prototype.trimEnd: the text up to its last chunk that is no white
\* space.
TrimEnd(s) ==
  IF \A i \in 1..Len(s) : s[i] \in WhiteSpace THEN <<>>
  ELSE SubSeq(s, 1, CHOOSE i \in 1..Len(s) :
                      /\ s[i] \notin WhiteSpace
                      /\ \A j \in (i + 1)..Len(s) : s[j] \in WhiteSpace)

\* The text as typed, white space kept.
TrimNone(s) == s

\* String.prototype.trim
Trim(s) == TrimEnd(TrimStart(s))

\* ------------------------------------------------------------ numbers
\* A natural number of any size is the sequence of its digits in base Base,
\* lowest first, the highest not 0; 0 is <<>>.
BaseBits == 15
Base == 32768

RECURSIVE Big(_)
\* The natural number n.
Big(n) == IF n = 0 THEN <<>> ELSE <<n % Base>> \o Big(n \div Base)

\* a without zero digits at the high end.
BigNorm(a) ==
  SubSeq(a, 1, CHOOSE l \in 0..Len(a) :
                 /\ l = 0 \/ a[l] # 0
                 /\ \A j \in (l + 1)..Len(a) : a[j] = 0)

\* The number whose digit sums are r, each below 2 * Base - 1: a place
\* receives a carry when a lower place overflows and every place between
\* is full.
BigCarry(r) ==
  BigNorm([i \in 1..Len(r) |->
             (r[i] + IF \E j \in 1..(i - 1) :
                          /\ r[j] >= Base
                          /\ \A k \in (j + 1)..(i - 1) : r[k] = Base - 1
                     THEN 1 ELSE 0) % Base])

\* a * m + c, for 1 <= m <= Base and 0 <= c < Base.
BigMulAdd(a, m, c) ==
  BigCarry([i \in 1..(Len(a) + 1) |->
              (IF i <= Len(a) THEN (a[i] * m) % Base ELSE 0)
                + (IF i = 1 THEN c ELSE (a[i - 1] * m) \div Base)])

\* a + b.
BigAdd(a, b) ==
  BigCarry([i \in 1..((IF Len(a) > Len(b) THEN Len(a) ELSE Len(b)) + 1) |->
              (IF i <= Len(a) THEN a[i] ELSE 0)
                + (IF i <= Len(b) THEN b[i] ELSE 0)])

\* 1, 0 or -1 as a is greater than, equal to or less than b.
BigCmp(a, b) ==
  IF Len(a) > Len(b) THEN 1
  ELSE IF Len(a) < Len(b) THEN -1
  ELSE IF a = b THEN 0
  ELSE LET i == CHOOSE i \in 1..Len(a) :
                  a[i] # b[i] /\ \A j \in (i + 1)..Len(a) : a[j] = b[j]
       IN IF a[i] > b[i] THEN 1 ELSE -1

\* a - b, for a >= b: a place lends when a lower place falls short and
\* every place between is level.
BigSub(a, b) ==
  LET bb == [i \in 1..Len(a) |-> IF i <= Len(b) THEN b[i] ELSE 0] IN
  BigNorm([i \in 1..Len(a) |->
             (a[i] - bb[i] + Base
                - IF \E j \in 1..(i - 1) :
                       /\ a[j] < bb[j]
                       /\ \A k \in (j + 1)..(i - 1) : a[k] = bb[k]
                  THEN 1 ELSE 0) % Base])

RECURSIVE Pow2(_)
Pow2(e) == IF e = 0 THEN 1 ELSE 2 * Pow2(e - 1)

\* a * Base^n.
BigShift(a, n) == IF a = <<>> THEN <<>> ELSE [i \in 1..n |-> 0] \o a

\* a * 2^s.
BigShl(a, s) ==
  BigShift(BigMulAdd(a, Pow2(s % BaseBits), 0), s \div BaseBits)

\* a \div 2.
BigHalf(a) ==
  BigNorm([i \in 1..Len(a) |->
             (a[i] \div 2)
               + (IF i < Len(a) THEN (a[i + 1] % 2) * (Base \div 2) ELSE 0)])

BigIsOdd(a) == a # <<>> /\ a[1] % 2 = 1

RECURSIVE Small(_)
\* The integer a is, for a below 2^31.
Small(a) == IF a = <<>> THEN 0 ELSE Head(a) + Base * Small(Tail(a))

RECURSIVE SmallBitLen(_)
SmallBitLen(n) == IF n = 0 THEN 0 ELSE 1 + SmallBitLen(n \div 2)

\* The number of binary digits of a.
BitLen(a) ==
  IF a = <<>> THEN 0 ELSE BaseBits * (Len(a) - 1) + SmallBitLen(a[Len(a)])

RECURSIVE BigMulDigits(_, _, _, _)
\* a times the digits lo..hi of b, each in its place.
BigMulDigits(a, b, lo, hi) ==
  IF lo = hi
  THEN IF b[lo] = 0 THEN <<>> ELSE BigShift(BigMulAdd(a, b[lo], 0), lo - 1)
  ELSE LET mid == (lo + hi) \div 2 IN
       BigAdd(BigMulDigits(a, b, lo, mid), BigMulDigits(a, b, mid + 1, hi))

\* a * b.
BigMul(a, b) ==
  IF a = <<>> \/ b = <<>> THEN <<>> ELSE BigMulDigits(a, b, 1, Len(b))

RECURSIVE BigPow(_, _)
\* r^e, for 1 <= r <= Base.
BigPow(r, e) ==
  IF e = 0 THEN Big(1)
  ELSE LET h == BigPow(r, e \div 2) IN
       IF e % 2 = 1 THEN BigMulAdd(BigMul(h, h), r, 0) ELSE BigMul(h, h)

RECURSIVE DivDigit(_, _, _, _)
\* The greatest g + x with x < 2^(i + 1) and d * (g + x) <= n.
DivDigit(n, d, i, g) ==
  IF i < 0 THEN g
  ELSE IF BigCmp(n, BigMulAdd(d, g + Pow2(i), 0)) >= 0
  THEN DivDigit(n, d, i - 1, g + Pow2(i))
  ELSE DivDigit(n, d, i - 1, g)

RECURSIVE BigDiv(_, _, _, _)
RECURSIVE BigDivStep(_, _, _, _, _)
\* Quotient and remainder of n by d, for n < d * Base^j, by long division:
\* q holds the digits of the quotient above digit j, and g is digit j.
BigDiv(n, d, j, q) ==
  IF j = 0 THEN [quot |-> q, rem |-> n]
  ELSE BigDivStep(n, d, j, q, DivDigit(n, BigShift(d, j - 1), BaseBits - 1, 0))

BigDivStep(n, d, j, q, g) ==
  BigDiv(IF g = 0 THEN n ELSE BigSub(n, BigMulAdd(BigShift(d, j - 1), g, 0)),
         d, j - 1, IF g = 0 /\ q = <<>> THEN <<>> ELSE <<g>> \o q)

\* A JavaScript number (a double): NaN, plus or minus Infinity, or the
\* finite value sign * mant * 2^exp, mant a natural number of any size,
\* written with exp = 0 when it is an integer and otherwise with exp < 0 and
\* mant odd, so that equal values are equal records.  0 has a sign as well.
Finite(sign, mant, exp) ==
  [kind |-> "finite", sign |-> sign, mant |-> mant, exp |-> exp]

\* The number an integer is.
Num(n) == IF n < 0 THEN Finite(-1, Big(-n), 0) ELSE Finite(1, Big(n), 0)

\* The value Number(s) gives for a string that is no numeral.
NaN == [kind |-> "NaN", sign |-> 1, mant |-> <<>>, exp |-> 0]

Infinity(sign) == [kind |-> "Infinity", sign |-> sign, mant |-> <<>>, exp |-> 0]

RECURSIVE Reduce(_, _, _)
\* sign * q * 2^p for p < 0, written as a number.
Reduce(sign, q, p) ==
  IF p < 0 /\ ~BigIsOdd(q) THEN Reduce(sign, BigHalf(q), p + 1)
  ELSE Finite(sign, q, p)

\* x when it is positive, otherwise 0.
Pos(x) == IF x > 0 THEN x ELSE 0

\* The k with 2^k <= a / b < 2^(k + 1), for a and b not 0.
Log2(a, b) ==
  LET d == BitLen(a) - BitLen(b) IN
  IF BigCmp(BigShl(a, Pos(-d)), BigShl(b, Pos(d))) >= 0 THEN d ELSE d - 1

\* Whether a quotient with a remainder, of a division by m, is rounded up:
\* when the remainder is more than half of m, or half of m and the quotient
\* is odd.
RoundsUp(qr, m) ==
  LET half == BigCmp(BigMulAdd(qr.rem, 2, 0), m) IN
  half > 0 \/ (half = 0 /\ BigIsOdd(qr.quot))

\* sign * q * 2^p as a double: Infinity from 2^1024 on.
DoubleValue(sign, q, p) ==
  IF q = <<>> THEN Finite(sign, <<>>, 0)
  ELSE IF BitLen(q) + p > 1024 THEN Infinity(sign)
  ELSE IF p >= 0 THEN Finite(sign, BigShl(q, p), 0)
  ELSE Reduce(sign, q, p)

\* sign * n / m rounded to an integer (ties to the even one), times 2^p.
DoubleRound(sign, qr, m, p) ==
  DoubleValue(sign,
              IF RoundsUp(qr, m) THEN BigMulAdd(qr.quot, 1, 1) ELSE qr.quot, p)

\* The multiple of 2^p nearest to sign * n / m, for n / m < 2^53.
DoublePlaces(sign, n, m, p) == DoubleRound(sign, BigDiv(n, m, 4, <<>>), m, p)

\* The multiple of 2^p nearest to sign * a / b, for a / b < 2^(p + 53).
DoubleScaled(sign, a, b, p) ==
  DoublePlaces(sign, BigShl(a, Pos(-p)), BigShl(b, Pos(p)), p)

\* The double nearest to sign * a / b (ties to the even one), b not 0.  An
\* integer below 2^53 is itself; otherwise 53 binary digits are kept, and
\* none below 2^-1074.
Double(sign, a, b) ==
  IF a = <<>> THEN Finite(sign, <<>>, 0)
  ELSE IF b = Big(1) /\ BitLen(a) <= 53 THEN Finite(sign, a, 0)
  ELSE DoubleScaled(sign, a, b, Pos(Log2(a, b) - 52 + 1074) - 1074)

\* The digits of the literals 0x.., 0o.. and 0b.., in either case.
LowerDigits == Digits \o <<"a", "b", "c", "d", "e", "f">>
UpperDigits == Digits \o <<"A", "B", "C", "D", "E", "F">>

IsRadixDigit(ch, radix) ==
  \E d \in 0..(radix - 1) : LowerDigits[d + 1] = ch \/ UpperDigits[d + 1] = ch

RadixDigitValue(ch) ==
  CHOOSE d \in 0..15 : LowerDigits[d + 1] = ch \/ UpperDigits[d + 1] = ch

RECURSIVE RadixValue(_, _)
\* The natural number the digits s write in the radix: the upper half of
\* the digits, moved up by the length of the lower half, plus the lower.
RadixValue(s, radix) ==
  IF s = <<>> THEN <<>>
  ELSE IF Len(s) = 1 THEN Big(RadixDigitValue(s[1]))
  ELSE LET h == Len(s) \div 2 IN
       BigAdd(BigMul(RadixValue(SubSeq(s, 1, h), radix),
                     BigPow(radix, Len(s) - h)),
              RadixValue(SubSeq(s, h + 1, Len(s)), radix))

\* The radix a prefix 0x, 0o or 0b announces; 0 when there is none.
Radix(t) ==
  IF Len(t) >= 3 /\ t[1] = "0"
  THEN CASE t[2] \in {"x", "X"} -> 16
         [] t[2] \in {"o", "O"} -> 8
         [] t[2] \in {"b", "B"} -> 2
         [] OTHER -> 0
  ELSE 0

\* The place of the first chunk of s that is in chars; 0 when there is none.
First(s, chars) ==
  IF \E i \in 1..Len(s) : s[i] \in chars
  THEN CHOOSE i \in 1..Len(s) :
         s[i] \in chars /\ \A j \in 1..(i - 1) : s[j] \notin chars
  ELSE 0

\* s up to place i, and s after it; all of s and nothing when i = 0.
Before(s, i) == IF i = 0 THEN s ELSE SubSeq(s, 1, i - 1)
After(s, i) == IF i = 0 THEN <<>> ELSE SubSeq(s, i + 1, Len(s))

AllDigits(s) == \A i \in 1..Len(s) : IsDigit(s[i])

\* The digits s without their leading zeros.
StripZeros(s) ==
  IF \A i \in 1..Len(s) : s[i] = "0" THEN <<>>
  ELSE SubSeq(s, CHOOSE i \in 1..Len(s) :
                   s[i] # "0" /\ \A j \in 1..(i - 1) : s[j] = "0",
              Len(s))

\* The digits s without their trailing zeros.
DropZeros(s) ==
  IF \A i \in 1..Len(s) : s[i] = "0" THEN <<>>
  ELSE SubSeq(s, 1, CHOOSE i \in 1..Len(s) :
                      s[i] # "0" /\ \A j \in (i + 1)..Len(s) : s[j] = "0")

\* An unsigned decimal literal cut up: the digits before and after the
\* point, whether an exponent part follows, its sign and its digits.
DecimalParts(u) ==
  LET e == First(u, {"e", "E"})
      m == Before(u, e)
      x == After(u, e)
      p == First(m, {"."})
      signed == x # <<>> /\ Head(x) \in {"+", "-"}
  IN [int |-> Before(m, p), frac |-> After(m, p),
      hasExp |-> e # 0,
      expSign |-> IF x # <<>> /\ Head(x) = "-" THEN -1 ELSE 1,
      expDigits |-> IF signed THEN Tail(x) ELSE x]

IsDecimalParts(d) ==
  /\ AllDigits(d.int) /\ AllDigits(d.frac)
  /\ Len(d.int) + Len(d.frac) >= 1
  /\ d.hasExp => d.expDigits # <<>> /\ AllDigits(d.expDigits)

\* StrUnsignedDecimalLiteral, Infinity apart: digits with an optional point
\* and at least one digit, then an optional exponent part with digits.
IsUnsignedDecimal(u) == IsDecimalParts(DecimalParts(u))

\* The double nearest to sign * digits * 10^(up - down), the digits without
\* leading zeros, up and down natural numbers of any size.  The value lies
\* in [10^e, 10^(e + 1)) for e = up - down + Len(digits) - 1; every double is
\* below 10^309, and a value below 10^-325 is nearest to 0.
ScaledDouble(sign, digits, up, down) ==
  IF digits = <<>> THEN Finite(sign, <<>>, 0)
  ELSE IF BigCmp(BigAdd(up, Big(Len(digits))), BigAdd(down, Big(310))) >= 0
  THEN Infinity(sign)
  ELSE IF BigCmp(BigAdd(BigAdd(up, Big(Len(digits))), Big(325)), down) <= 0
  THEN Finite(sign, <<>>, 0)
  ELSE Double(sign,
              IF BigCmp(up, down) > 0
              THEN BigMul(RadixValue(digits, 10),
                          BigPow(10, Small(BigSub(up, down))))
              ELSE RadixValue(digits, 10),
              IF BigCmp(up, down) < 0
              THEN BigPow(10, Small(BigSub(down, up)))
              ELSE Big(1))

\* The double a decimal literal denotes, from its digits all, without their
\* leading zeros: each trailing zero dropped, and the exponent written when
\* it is positive, move the value up a place; each digit after the point,
\* and the exponent written when it is negative, move it down a place.
DigitsDouble(sign, d, all) ==
  ScaledDouble(sign, DropZeros(all),
               BigAdd(IF d.expSign = 1 THEN RadixValue(d.expDigits, 10)
                      ELSE <<>>,
                      Big(Len(all) - Len(DropZeros(all)))),
               BigAdd(IF d.expSign = -1 THEN RadixValue(d.expDigits, 10)
                      ELSE <<>>,
                      Big(Len(d.frac))))

\* The double the parts of a decimal literal denote: an integer written
\* without an exponent is the number its digits write.
DecimalDouble(sign, d) ==
  IF d.frac = <<>> /\ d.expDigits = <<>>
  THEN Double(sign, RadixValue(d.int, 10), Big(1))
  ELSE DigitsDouble(sign, d, StripZeros(d.int \o d.frac))

\* The double an unsigned decimal literal denotes, with the sign given.
UnsignedDecimal(sign, u) == DecimalDouble(sign, DecimalParts(u))

InfinityText == <<"I", "n", "f", "i", "n", "i", "t", "y">>

\* StringToNumber of a string without white space at its ends: "" is 0; a
\* literal 0x.., 0o.. or 0b.. is its value; a decimal literal with an
\* optional sign, point and exponent is its value; Infinity with an optional
\* sign is itself; anything else is NaN.  The value is rounded to the
\* nearest double.
StringToNumber(t) ==
  IF t = <<>> THEN Num(0)
  ELSE IF Radix(t) # 0
  THEN LET ds == SubSeq(t, 3, Len(t)) IN
       IF \A i \in 1..Len(ds) : IsRadixDigit(ds[i], Radix(t))
       THEN Double(1, RadixValue(ds, Radix(t)), Big(1))
       ELSE NaN
  ELSE LET u == IF Head(t) \in {"+", "-"} THEN Tail(t) ELSE t
           sign == IF Head(t) = "-" THEN -1 ELSE 1
       IN
       IF u = InfinityText THEN Infinity(sign)
       ELSE IF IsUnsignedDecimal(u) THEN UnsignedDecimal(sign, u)
       ELSE NaN

\* Number(s) for a string: white space is stripped at both ends first.
Number(s) == StringToNumber(Trim(s))

\* JavaScript truthiness of a number: 0, -0 and NaN are falsy.
Truthy(n) == n # NaN /\ n # Num(0) /\ n # Finite(-1, <<>>, 0)

\* JSON.stringify of a number: a finite number is itself (-0 is written 0),
\* NaN and the infinities are null.
JsonNull == [kind |-> "null", sign |-> 1, mant |-> <<>>, exp |-> 0]
JsonNumber(n) ==
  IF n.kind # "finite" THEN JsonNull
  ELSE IF n.mant = <<>> THEN Num(0)
  ELSE n

\* ------------------------------------------------------------ backend
CardIds == 1..MaxCardId

\* The card the backend stores under an identifier.
Card(id) ==
  [id |-> id,
   question |-> <<"q">> \o ToString(id),
   answer |-> <<"a">> \o ToString(id)]

Cards == {Card(id) : id \in CardIds}

\* What GET /review/next answers with: a card, or null (nothing due).
NoCard == [id |-> 0, question |-> <<>>, answer |-> <<>>]

\* The grading buttons (button[data-res]); the vocabulary is the backend's.
Results == {"easy", "hard"}

\* What POST /socratic/start and /socratic/reply answer with: the opening
\* question, then a follow-up question or the finished note.
Questions == {<<"Q1">>}
FollowUps == {<<"Q2">>}
Contents == {<<"note">>}
Titles == {<<>>, <<"T">>}

StartAnswer(session_id, question) ==
  [session_id |-> session_id, question |-> question]

ReplyAnswers ==
  {[done |-> FALSE, question |-> q, content |-> <<>>, title |-> <<>>] :
     q \in FollowUps}
  \cup
  {[done |-> TRUE, question |-> <<>>, content |-> n, title |-> t] :
     n \in Contents, t \in Titles}

\* What the user types into #sidekickTopic, #chatInput and #sidekickOutput.
TopicInputs == {<<" ">>, <<" ", "t">>}
AnswerInputs == {<<" ">>, <<"a", " ">>, <<"b">>}
OutputInputs == {<<" ">>, <<"x">>}

\* ------------------------------------------------------- fixed texts
NothingDue == <<"Nothing due yet">>
DefaultTitle == <<"My Learning Note">>
GreatWork == <<"Great work!">>

\* ------------------------------------------------------------- state
VARIABLES
  reviewQ,        \* #reviewQ: [textContent, cardId], cardId = dataset.cardId
  reviewA,        \* #reviewA: [textContent, hidden], hidden = classList has "hidden"
  SOC_SESSION,    \* the session token; 0 is null
  chatBox,        \* #chatBox: the turns its innerHTML holds, [who, text]
  chatInput,      \* #chatInput.value
  sidekickTitle,  \* #sidekickTitle.value
  sidekickOutput, \* #sidekickOutput.value
  calls,          \* handler invocations suspended at an await
  nextCall,       \* the number the next handler invocation gets
  issued,         \* backend: how many dialogue sessions it has created
  completed,      \* backend: the sessions it has answered done=true for
  loaded,         \* history: the /review/next response that wrote #reviewQ and
                  \* #reviewA last, [since, card, submits, revealed]: the
                  \* invocations below `since` had started when its request
                  \* was made; after it, `submits` /review/submit requests
                  \* were made and showAnswer ran or not (`revealed`)
  event,          \* history: the step taken last
  pair,           \* two review sessions run side by side (PairSpec)
  seq             \* a dialogue session used one awaited call at a time (SeqSpec)

reviewVars == <<reviewQ, reviewA, loaded>>
dialogueVars ==
  <<SOC_SESSION, chatBox, chatInput, sidekickTitle, sidekickOutput, issued,
    completed>>
vars ==
  <<reviewQ, reviewA, SOC_SESSION, chatBox, chatInput, sidekickTitle,
    sidekickOutput, calls, nextCall, issued, completed, loaded, event, pair,
    seq>>

\* dataset.cardId: undefined until first assigned, then a string.
Undefined == [set |-> FALSE, value |-> <<>>]
Attr(s) == [set |-> TRUE, value |-> s]

\* The review session as the two elements hold it.
Dom == [reviewQ |-> reviewQ, reviewA |-> reviewA]

\* The dialogue session as SOC_SESSION and the sidekick pane hold it.
Dialogue ==
  [SOC_SESSION |-> SOC_SESSION, chatBox |-> chatBox, chatInput |-> chatInput,
   sidekickTitle |-> sidekickTitle, sidekickOutput |-> sidekickOutput]

NoDialogue ==
  [SOC_SESSION |-> 0, chatBox |-> <<>>, chatInput |-> <<>>,
   sidekickTitle |-> <<>>, sidekickOutput |-> <<>>]

Turn(who, text) == [who |-> who, text |-> text]

\* A request as fetch receives it; the fields a path does not use are blank
\* (card_id: the number 0).
Request(method, path) ==
  [method |-> method, path |-> path, card_id |-> Num(0), result |-> "",
   session_id |-> 0, text |-> <<>>, title |-> <<>>]

\* A suspended handler invocation: op is the handler the user triggered, pc
\* the request it awaits, sent the requests it has made so far; cardId and
\* result are the locals of submitResult, text the topic of startSidekick.
\* History: the invocations below `since` had started when it made the
\* /review/next request it awaits (0: it awaits none); pre is the dialogue
\* session as sendSidekickAnswer found it.
Call(id, op, pc, sent) ==
  [id |-> id, op |-> op, pc |-> pc, sent |-> sent, cardId |-> Num(0),
   result |-> "", text |-> <<>>, since |-> 0, pre |-> NoDialogue]

\* The step taken last: its kind, the invocation it belongs to (0: one that
\* never reached the network), the handler, the result of the button
\* clicked, and whether the handler ended with this step.
Event(kind, call, op, finished) ==
  [kind |-> kind, call |-> call, op |-> op, finished |-> finished,
   result |-> ""]

\* The call suspended on request `pc`, moved on to await `path`.
Await(c, pc, path) ==
  [c EXCEPT !.pc = pc,
            !.sent = Append(@, Request("GET", path)),
            !.since = IF path = "/review/next" THEN nextCall ELSE 0]

SetDom(dom) ==
  /\ reviewQ' = dom.reviewQ
  /\ reviewA' = dom.reviewA

SetDialogue(d) ==
  /\ SOC_SESSION' = d.SOC_SESSION
  /\ chatBox' = d.chatBox
  /\ chatInput' = d.chatInput
  /\ sidekickTitle' = d.sidekickTitle
  /\ sidekickOutput' = d.sidekickOutput

\* --------------------------------------------------- review: handlers
\* loadNext without lines 60-61: nothing due, and the old answer stays as it
\* was.
loadNextApplyKeepsAnswer(dom, card) ==
  IF card = NoCard
  THEN [reviewQ |-> [textContent |-> NothingDue, cardId |-> Attr(<<>>)],
        reviewA |-> dom.reviewA]
  ELSE [reviewQ |-> [textContent |-> card.question,
                     cardId |-> Attr(ToString(card.id))],
        reviewA |-> [textContent |-> card.answer, hidden |-> TRUE]]

\* loadNext without line 67: the new card's answer is as visible as the old.
loadNextApplyNoHide(dom, card) ==
  IF card = NoCard
  THEN [reviewQ |-> [textContent |-> NothingDue, cardId |-> Attr(<<>>)],
        reviewA |-> [textContent |-> <<>>, hidden |-> TRUE]]
  ELSE [reviewQ |-> [textContent |-> card.question,
                     cardId |-> Attr(ToString(card.id))],
        reviewA |-> [textContent |-> card.answer,
                     hidden |-> dom.reviewA.hidden]]

\* loadNext writing the card's identifier and leaving both texts as they
\* were.
loadNextApplyIdOnly(dom, card) ==
  IF card = NoCard
  THEN [reviewQ |-> [textContent |-> NothingDue, cardId |-> Attr(<<>>)],
        reviewA |-> [textContent |-> <<>>, hidden |-> TRUE]]
  ELSE [reviewQ |-> [textContent |-> dom.reviewQ.textContent,
                     cardId |-> Attr(ToString(card.id))],
        reviewA |-> [textContent |-> dom.reviewA.textContent, hidden |-> TRUE]]

\* loadNext, lines 57-68: what a successful /review/next response writes.
loadNextApply(dom, card) ==
  IF card = NoCard
  THEN [reviewQ |-> [textContent |-> NothingDue, cardId |-> Attr(<<>>)],
        reviewA |-> [textContent |-> <<>>, hidden |-> TRUE]]
  ELSE [reviewQ |-> [textContent |-> card.question,
                     cardId |-> Attr(ToString(card.id))],
        reviewA |-> [textContent |-> card.answer, hidden |-> TRUE]]

\* showAnswer, line 84.
showAnswerApply(dom) ==
  [dom EXCEPT !.reviewA.hidden = FALSE]

\* submitResult grading only a revealed card.
submitCardIdIfShown(dom) ==
  IF dom.reviewA.hidden \/ ~dom.reviewQ.cardId.set
     \/ dom.reviewQ.cardId.value = <<>>
  THEN Num(0)
  ELSE Number(dom.reviewQ.cardId.value)

\* submitResult, line 72: Number($("reviewQ").dataset.cardId || 0).
submitCardId(dom) ==
  IF ~dom.reviewQ.cardId.set \/ dom.reviewQ.cardId.value = <<>>
  THEN Num(0)
  ELSE Number(dom.reviewQ.cardId.value)

\* submitResult without line 73.
submitGuardAlways(cardId) == TRUE

\* submitResult, line 73: if (!cardId) return.
submitGuard(cardId) == Truthy(cardId)

\* submitResult with a body that leaves the result out.
submitRequestNoResult(cardId, result) ==
  [Request("POST", "/review/submit") EXCEPT !.card_id = JsonNumber(cardId)]

\* submitResult, lines 74-78: the request it makes.
submitRequest(cardId, result) ==
  [Request("POST", "/review/submit") EXCEPT !.card_id = JsonNumber(cardId),
                                            !.result = result]

\* loadNext that also drops the dialogue session.
loadNextResetsSidekick ==
  /\ UNCHANGED <<chatBox, chatInput, sidekickTitle, sidekickOutput, issued,
                 completed, pair, seq>>
  /\ SOC_SESSION' = 0
  /\ /\ nextCall <= MaxCalls
     /\ calls' = calls \cup
          {[Call(nextCall, "loadNext", "next", <<Request("GET", "/review/next")>>)
              EXCEPT !.since = nextCall + 1]}
     /\ nextCall' = nextCall + 1
     /\ event' = Event("loadNext.call", nextCall, "loadNext", FALSE)
     /\ UNCHANGED reviewVars

\* The user clicks "Load next": loadNext runs to its await (lines 52-56).
loadNext ==
  /\ UNCHANGED <<dialogueVars, pair, seq>>
  /\ /\ nextCall <= MaxCalls
     /\ calls' = calls \cup
          {[Call(nextCall, "loadNext", "next", <<Request("GET", "/review/next")>>)
              EXCEPT !.since = nextCall + 1]}
     /\ nextCall' = nextCall + 1
     /\ event' = Event("loadNext.call", nextCall, "loadNext", FALSE)
     /\ UNCHANGED reviewVars

\* The user clicks "Show answer".
showAnswer ==
  /\ UNCHANGED <<dialogueVars, pair, seq>>
  /\ /\ SetDom(showAnswerApply(Dom))
     /\ loaded' = [loaded EXCEPT !.revealed = TRUE]
     /\ event' = Event("showAnswer", 0, "showAnswer", TRUE)
     /\ UNCHANGED <<calls, nextCall>>

\* The user clicks a grading button: submitResult runs to its first await
\* (lines 71-78), or returns at line 73.
submitResult(result) ==
  /\ UNCHANGED <<dialogueVars, pair, seq>>
  /\ LET cardId == submitCardId(Dom) IN
     IF ~submitGuard(cardId)
     THEN /\ event' = [Event("submit.noop", 0, "submitResult", TRUE)
                         EXCEPT !.result = result]
          /\ UNCHANGED <<reviewVars, calls, nextCall>>
     ELSE /\ nextCall <= MaxCalls
          /\ calls' = calls \cup
               {[Call(nextCall, "submitResult", "submit",
                      <<submitRequest(cardId, result)>>)
                   EXCEPT !.cardId = cardId, !.result = result]}
          /\ nextCall' = nextCall + 1
          /\ loaded' = [loaded EXCEPT !.submits = @ + 1]
          /\ event' = [Event("submit.call", nextCall, "submitResult", FALSE)
                         EXCEPT !.result = result]
          /\ UNCHANGED <<reviewQ, reviewA>>

\* ------------------------------------------------- review: responses
\* submitResult going on to loadNext whatever /review/submit answered.
submitResponseReloads(c, ok) ==
  /\ UNCHANGED <<dialogueVars, pair, seq>>
  /\ /\ c \in calls /\ c.pc = "submit"
     /\ calls' = (calls \ {c}) \cup {Await(c, "next", "/review/next")}
     /\ event' = Event(IF ok THEN "submit.ack" ELSE "submit.fail", c.id, c.op,
                       FALSE)
     /\ UNCHANGED <<reviewVars, nextCall>>

\* POST /review/submit answers.  Acknowledged: submitResult goes on to
\* `await loadNext()` (line 79), which sends /review/next.  Refused: api
\* throws (line 7) and submitResult ends there.
submitResponse(c, ok) ==
  /\ UNCHANGED <<dialogueVars, pair, seq>>
  /\ /\ c \in calls /\ c.pc = "submit"
     /\ IF ok
        THEN /\ calls' = (calls \ {c}) \cup {Await(c, "next", "/review/next")}
             /\ event' = Event("submit.ack", c.id, c.op, FALSE)
        ELSE /\ calls' = calls \ {c}
             /\ event' = Event("submit.fail", c.id, c.op, TRUE)
     /\ UNCHANGED <<reviewVars, nextCall>>

\* loadNext dropping the answer to a request older than the one shown.
loadNextResponseNewestOnly(c, ok, card) ==
  /\ UNCHANGED <<dialogueVars, pair, seq>>
  /\ /\ c \in calls /\ c.pc = "next"
     /\ IF ~ok
        THEN /\ calls' = calls \ {c}
             /\ event' = Event("next.fail", c.id, c.op, TRUE)
             /\ UNCHANGED reviewVars
        ELSE /\ IF c.since > loaded.since
                THEN /\ SetDom(loadNextApply(Dom, card))
                     /\ loaded' = [since |-> c.since, card |-> card,
                                   submits |-> 0, revealed |-> FALSE]
                ELSE UNCHANGED reviewVars
             /\ IF c.op = "submitResult"
                THEN /\ calls' = (calls \ {c}) \cup {Await(c, "refresh", "/cards")}
                     /\ event' = Event("next.ok", c.id, c.op, FALSE)
                ELSE /\ calls' = calls \ {c}
                     /\ event' = Event("next.ok", c.id, c.op, TRUE)
     /\ UNCHANGED nextCall

\* GET /review/next answers a loadNext that the button or submitResult
\* started.  ok = FALSE: api throws and the invocation ends (a submitResult
\* with it).  Otherwise lines 57-68 run; a submitResult then goes on to
\* `await refreshCards()` (line 80).
loadNextResponse(c, ok, card) ==
  /\ UNCHANGED <<dialogueVars, pair, seq>>
  /\ /\ c \in calls /\ c.pc = "next"
     /\ IF ~ok
        THEN /\ calls' = calls \ {c}
             /\ event' = Event("next.fail", c.id, c.op, TRUE)
             /\ UNCHANGED reviewVars
        ELSE /\ SetDom(loadNextApply(Dom, card))
             /\ loaded' = [since |-> c.since, card |-> card, submits |-> 0,
                           revealed |-> FALSE]
             /\ IF c.op = "submitResult"
                THEN /\ calls' = (calls \ {c}) \cup {Await(c, "refresh", "/cards")}
                     /\ event' = Event("next.ok", c.id, c.op, FALSE)
                ELSE /\ calls' = calls \ {c}
                     /\ event' = Event("next.ok", c.id, c.op, TRUE)
     /\ UNCHANGED nextCall

\* GET /cards answers the refreshCards of a submitResult (line 80).  ok:
\* refreshCards fills #cardsTbody, which is no part of either session, and
\* submitResult goes on to `await refreshStats()` (line 81), which sends
\* GET /reflect/stats.  Otherwise api throws and submitResult ends there.
refreshCardsResponse(c, ok) ==
  /\ UNCHANGED <<dialogueVars, pair, seq>>
  /\ /\ c \in calls /\ c.pc = "refresh"
     /\ IF ok
        THEN /\ calls' = (calls \ {c})
                            \cup {Await(c, "refresh.stats", "/reflect/stats")}
             /\ event' = Event("cards.ok", c.id, c.op, FALSE)
        ELSE /\ calls' = calls \ {c}
             /\ event' = Event("cards.fail", c.id, c.op, TRUE)
     /\ UNCHANGED <<reviewVars, nextCall>>

\* GET /reflect/stats answers the refreshStats of a submitResult (line 81):
\* refreshStats fills #stats, which is no part of either session, and
\* submitResult returns (line 82); or api throws.
refreshStatsResponse(c, ok) ==
  /\ UNCHANGED <<dialogueVars, pair, seq>>
  /\ /\ c \in calls /\ c.pc = "refresh.stats"
     /\ calls' = calls \ {c}
     /\ event' = Event(IF ok THEN "stats.ok" ELSE "stats.fail", c.id, c.op, TRUE)
     /\ UNCHANGED <<reviewVars, nextCall>>

\* ------------------------------------------------- dialogue: handlers
\* startSidekick, line 176.
startTopic(typed) == Trim(typed)

\* startSidekick, lines 178-182: the request it makes.
startRequest(topic) ==
  [Request("POST", "/socratic/start") EXCEPT !.text = topic]

\* startSidekick appending its question to the transcript it finds.
startApplyMerge(d, topic, res) ==
  [d EXCEPT !.SOC_SESSION = res.session_id,
            !.sidekickTitle = topic,
            !.sidekickOutput = <<>>,
            !.chatBox = Append(@, Turn("Gemini", res.question))]

\* startSidekick, lines 183-186: what a successful response writes.
startApply(d, topic, res) ==
  [d EXCEPT !.SOC_SESSION = res.session_id,
            !.sidekickTitle = topic,
            !.sidekickOutput = <<>>,
            !.chatBox = <<Turn("Gemini", res.question)>>]

\* sendSidekickAnswer, line 191: if (!SOC_SESSION) return.
replyGuard(d) == d.SOC_SESSION # 0

\* sendSidekickAnswer putting the user's turn at the head of the transcript.
replySendFirst(d, ans) ==
  [d EXCEPT !.chatBox = <<Turn("You", ans)>> \o @,
            !.chatInput = <<>>]

\* sendSidekickAnswer, lines 194-195: the user's turn, written before the
\* request is made.
replySend(d, ans) ==
  [d EXCEPT !.chatBox = Append(@, Turn("You", ans)),
            !.chatInput = <<>>]

\* sendSidekickAnswer, lines 196-200: the request it makes.
replyRequest(d, ans) ==
  [Request("POST", "/socratic/reply") EXCEPT !.session_id = d.SOC_SESSION,
                                             !.text = ans]

\* sendSidekickAnswer, lines 201-207: what a successful response writes.
replyApply(d, res) ==
  IF ~res.done
  THEN [d EXCEPT !.chatBox = Append(@, Turn("Gemini", res.question))]
  ELSE [d EXCEPT !.sidekickOutput = res.content,
                 !.sidekickTitle = IF res.title # <<>> THEN res.title
                                   ELSE IF @ # <<>> THEN @
                                   ELSE DefaultTitle,
                 !.chatBox = Append(@, Turn("Gemini", GreatWork))]

\* postNote, lines 212-218: the request it makes.
postRequest(d) ==
  [Request("POST", "/posts") EXCEPT
     !.title = IF Trim(d.sidekickTitle) # <<>> THEN Trim(d.sidekickTitle)
               ELSE DefaultTitle,
     !.text = Trim(d.sidekickOutput)]

\* postNote publishing only in a session.
postGuardInSession(d) == d.SOC_SESSION # 0 /\ Trim(d.sidekickOutput) # <<>>

\* postNote, line 214: if (!content) return.
postGuard(d) == Trim(d.sidekickOutput) # <<>>

\* The user types a topic and clicks "Start": startSidekick runs to its
\* await (lines 175-182), or returns at line 177.
startSidekick(typed) ==
  /\ UNCHANGED <<reviewVars, pair, seq>>
  /\ LET topic == startTopic(typed) IN
     IF topic = <<>>
     THEN /\ event' = Event("start.noop", 0, "startSidekick", TRUE)
          /\ UNCHANGED <<dialogueVars, calls, nextCall>>
     ELSE /\ nextCall <= MaxCalls
          /\ calls' = calls \cup
               {[Call(nextCall, "startSidekick", "start", <<startRequest(topic)>>)
                   EXCEPT !.text = topic]}
          /\ nextCall' = nextCall + 1
          /\ event' = Event("start.call", nextCall, "startSidekick", FALSE)
          /\ UNCHANGED <<dialogueVars, pair, seq>>

\* The user types an answer and clicks "Send" or presses Enter:
\* sendSidekickAnswer runs to its await (lines 190-200), or returns at line
\* 191 or 193 with the typed text left in #chatInput.
sendSidekickAnswer(typed) ==
  /\ UNCHANGED <<reviewVars, pair, seq>>
  /\ LET d == [Dialogue EXCEPT !.chatInput = typed]
         ans == Trim(typed)
     IN
     IF ~replyGuard(d)
     THEN /\ SetDialogue(d)
          /\ event' = Event("reply.noSession", 0, "sendSidekickAnswer", TRUE)
          /\ UNCHANGED <<issued, completed, calls, nextCall>>
     ELSE IF ans = <<>>
     THEN /\ SetDialogue(d)
          /\ event' = Event("reply.empty", 0, "sendSidekickAnswer", TRUE)
          /\ UNCHANGED <<issued, completed, calls, nextCall>>
     ELSE /\ nextCall <= MaxCalls
          /\ SetDialogue(replySend(d, ans))
          /\ calls' = calls \cup
               {[Call(nextCall, "sendSidekickAnswer", "reply",
                      <<replyRequest(d, ans)>>)
                   EXCEPT !.text = ans, !.pre = d]}
          /\ nextCall' = nextCall + 1
          /\ event' = Event("reply.call", nextCall, "sendSidekickAnswer", FALSE)
          /\ UNCHANGED <<issued, completed>>

\* The user clicks "Post": postNote runs to its await (lines 211-218), or
\* returns at line 214.
postNote ==
  /\ UNCHANGED <<reviewVars, pair, seq>>
  /\ IF ~postGuard(Dialogue)
     THEN /\ event' = Event("post.noop", 0, "postNote", TRUE)
          /\ UNCHANGED <<dialogueVars, calls, nextCall>>
     ELSE /\ nextCall <= MaxCalls
          /\ calls' = calls \cup
               {Call(nextCall, "postNote", "post", <<postRequest(Dialogue)>>)}
          /\ nextCall' = nextCall + 1
          /\ event' = Event("post.call", nextCall, "postNote", FALSE)
          /\ UNCHANGED <<dialogueVars, pair, seq>>

\* The user edits the draft in #sidekickOutput.
editOutput(typed) ==
  /\ UNCHANGED <<reviewVars, pair, seq>>
  /\ /\ sidekickOutput' = typed
     /\ event' = Event("edit.output", 0, "", TRUE)
     /\ UNCHANGED <<SOC_SESSION, chatBox, chatInput, sidekickTitle, issued,
                    completed, calls, nextCall>>

\* ----------------------------------------------- dialogue: responses
\* POST /socratic/start answers: the backend made a new session and asks
\* its first question (lines 183-187 run), or refused and api throws.
startResponse(c, ok, question) ==
  /\ UNCHANGED <<reviewVars, pair, seq>>
  /\ /\ c \in calls /\ c.pc = "start"
     /\ calls' = calls \ {c}
     /\ IF ok
        THEN /\ SetDialogue(startApply(Dialogue, c.text,
                                       StartAnswer(issued + 1, question)))
             /\ issued' = issued + 1
             /\ event' = Event("start.ok", c.id, c.op, TRUE)
        ELSE /\ event' = Event("start.fail", c.id, c.op, TRUE)
             /\ UNCHANGED <<SOC_SESSION, chatBox, chatInput, sidekickTitle,
                            sidekickOutput, issued>>
     /\ UNCHANGED <<completed, nextCall>>

\* POST /socratic/reply answers: the next question or the finished note
\* (lines 201-208 run), or the backend refused and api throws.
replyResponse(c, ok, res) ==
  /\ UNCHANGED <<reviewVars, pair, seq>>
  /\ /\ c \in calls /\ c.pc = "reply"
     /\ calls' = calls \ {c}
     /\ IF ok
        THEN /\ SetDialogue(replyApply(Dialogue, res))
             /\ completed' = IF res.done
                             THEN completed \cup {c.sent[1].session_id}
                             ELSE completed
             /\ event' = Event(IF res.done THEN "reply.done" ELSE "reply.more",
                               c.id, c.op, TRUE)
        ELSE /\ event' = Event("reply.fail", c.id, c.op, TRUE)
             /\ UNCHANGED <<SOC_SESSION, chatBox, chatInput, sidekickTitle,
                            sidekickOutput, completed>>
     /\ UNCHANGED <<issued, nextCall>>

\* POST /posts answers: postNote goes on to `await refreshPosts()` (line
\* 220), which sends GET /posts; or the backend refused and api throws.
postResponse(c, ok) ==
  /\ UNCHANGED <<reviewVars, pair, seq>>
  /\ /\ c \in calls /\ c.pc = "post"
     /\ IF ok
        THEN /\ calls' = (calls \ {c}) \cup {Await(c, "refreshPosts", "/posts")}
             /\ event' = Event("post.ok", c.id, c.op, FALSE)
        ELSE /\ calls' = calls \ {c}
             /\ event' = Event("post.fail", c.id, c.op, TRUE)
     /\ UNCHANGED <<dialogueVars, nextCall>>

\* GET /posts answers the refreshPosts of a postNote (lines 223-232): it
\* fills #postsList, which is no part of either session, or api throws.
refreshPostsResponse(c, ok) ==
  /\ UNCHANGED <<reviewVars, pair, seq>>
  /\ /\ c \in calls /\ c.pc = "refreshPosts"
     /\ calls' = calls \ {c}
     /\ event' = Event(IF ok THEN "posts.ok" ELSE "posts.fail", c.id, c.op, TRUE)
     /\ UNCHANGED <<dialogueVars, nextCall>>

\* ------------------------------------- two review sessions, side by side
\* Two review sessions get the same gestures, each awaited before the next,
\* and the same backend answers; session `a` also clicks "Show answer" before
\* every grading click.  A run is [dom, pc, sent]: the two elements, the
\* request awaited ("idle": none) and the requests made.  History of the
\* last gesture: `last` names it, `pre` is session b's elements when it was
\* made, `acked` says that its POST /review/submit was accepted and
\* `reloaded` that its follow-up GET /review/next was answered.
InitDom ==
  [reviewQ |-> [textContent |-> <<>>, cardId |-> Undefined],
   reviewA |-> [textContent |-> <<>>, hidden |-> TRUE]]

InitRun == [dom |-> InitDom, pc |-> "idle", sent |-> <<>>]

InitPair ==
  [a |-> InitRun, b |-> InitRun, n |-> 0, last |-> "", pre |-> InitDom,
   acked |-> FALSE, reloaded |-> FALSE]

\* loadNext to its await (lines 52-56).
runLoadNext(run) ==
  [run EXCEPT !.pc = "load",
              !.sent = Append(@, Request("GET", "/review/next"))]

\* showAnswer (line 84).
runShowAnswer(run) == [run EXCEPT !.dom = showAnswerApply(@)]

\* submitResult to its first await (lines 71-78), or its return at line 73.
runSubmitResult(run, result) ==
  LET cardId == submitCardId(run.dom) IN
  IF ~submitGuard(cardId) THEN run
  ELSE [run EXCEPT !.pc = "submit",
                   !.sent = Append(@, submitRequest(cardId, result))]

\* The awaited request answers: loadNext resumes (lines 57-68), or
\* submitResult does (lines 79-82: loadNext, then refreshCards, then
\* refreshStats, each awaited); a refused request ends the handler.
runResponse(run, ok, card) ==
  CASE run.pc = "load" ->
         IF ok THEN [run EXCEPT !.dom = loadNextApply(@, card), !.pc = "idle"]
         ELSE [run EXCEPT !.pc = "idle"]
    [] run.pc = "submit" ->
         IF ok THEN [run EXCEPT !.pc = "next",
                                !.sent = Append(@, Request("GET", "/review/next"))]
         ELSE [run EXCEPT !.pc = "idle"]
    [] run.pc = "next" ->
         IF ok THEN [run EXCEPT !.dom = loadNextApply(@, card),
                                !.pc = "refresh",
                                !.sent = Append(@, Request("GET", "/cards"))]
         ELSE [run EXCEPT !.pc = "idle"]
    [] run.pc = "refresh" ->
         IF ok THEN [run EXCEPT !.pc = "refresh.stats",
                                !.sent = Append(@, Request("GET", "/reflect/stats"))]
         ELSE [run EXCEPT !.pc = "idle"]
    [] run.pc = "refresh.stats" -> [run EXCEPT !.pc = "idle"]
    [] OTHER -> run

PairIdle == pair.a.pc = "idle" /\ pair.b.pc = "idle"

mainVars ==
  <<reviewQ, reviewA, SOC_SESSION, chatBox, chatInput, sidekickTitle,
    sidekickOutput, calls, nextCall, issued, completed, loaded, event>>

\* "Load next" is clicked in both sessions.
pairLoadNext ==
  /\ PairIdle /\ pair.n < MaxCalls
  /\ pair' = [pair EXCEPT !.a = runLoadNext(@), !.b = runLoadNext(@),
                          !.n = @ + 1, !.last = "load", !.pre = pair.b.dom,
                          !.acked = FALSE, !.reloaded = FALSE]
  /\ UNCHANGED <<mainVars, seq>>

\* A grading button is clicked in both sessions, in `a` after "Show answer".
\* last records whether a card was loaded then.
pairSubmitResult(result) ==
  /\ PairIdle /\ pair.n < MaxCalls
  /\ pair' = [pair EXCEPT
       !.a = runSubmitResult(runShowAnswer(@), result),
       !.b = runSubmitResult(@, result),
       !.n = @ + 1,
       !.last = IF pair.b.dom.reviewQ.cardId.set
                   /\ pair.b.dom.reviewQ.cardId.value # <<>>
                THEN "submit" ELSE "submit.empty",
       !.pre = pair.b.dom,
       !.acked = FALSE,
       !.reloaded = FALSE]
  /\ UNCHANGED <<mainVars, seq>>

\* The backend gives both sessions the same answer.
pairResponse(ok, card) ==
  /\ ~PairIdle
  /\ pair' = [pair EXCEPT
       !.a = runResponse(@, ok, card),
       !.b = runResponse(@, ok, card),
       !.acked = @ \/ (ok /\ (pair.a.pc = "submit" \/ pair.b.pc = "submit")),
       !.reloaded = @ \/ (ok /\ (pair.a.pc = "next" \/ pair.b.pc = "next"))]
  /\ UNCHANGED <<mainVars, seq>>

\* ------------------------------- a dialogue session, one call at a time
\* Sequentially awaited use: the user starts and replies only when no
\* request is under way.  d is the session as SOC_SESSION and the pane hold
\* it, pc the request awaited ("idle": none), text the trimmed text the
\* handler sent, session the token it sent; issued and completed are the
\* backend's.  History: since the last successful start, k replies have
\* succeeded, `expect` lists the backend's opening question and then each
\* answer sent with the turn that came back, `note` is the last reply
\* answer, and `clean` says that no reply has failed and none was sent after
\* done=true.
NoReply == [done |-> FALSE, question |-> <<>>, content |-> <<>>, title |-> <<>>]

InitSeq ==
  [d |-> NoDialogue, pc |-> "idle", text |-> <<>>, session |-> 0,
   issued |-> 0, completed |-> {}, n |-> 0,
   k |-> 0, expect |-> <<>>, note |-> NoReply, clean |-> FALSE,
   topic |-> <<>>]

\* startSidekick to its await (lines 175-182), or its return at line 177.
seqStart(typed) ==
  /\ seq.pc = "idle" /\ seq.n < MaxCalls
  /\ LET topic == startTopic(typed) IN
     IF topic = <<>> THEN UNCHANGED seq
     ELSE seq' = [seq EXCEPT !.pc = "start", !.text = topic, !.n = @ + 1]
  /\ UNCHANGED <<mainVars, pair>>

\* sendSidekickAnswer to its await (lines 190-200), or its return at line
\* 191 or 193.
seqReply(typed) ==
  /\ seq.pc = "idle" /\ seq.n < MaxCalls
  /\ LET d == [seq.d EXCEPT !.chatInput = typed]
         ans == Trim(typed)
     IN
     IF ~replyGuard(d) \/ ans = <<>> THEN seq' = [seq EXCEPT !.d = d]
     ELSE seq' = [seq EXCEPT !.d = replySend(d, ans),
                             !.pc = "reply",
                             !.text = ans,
                             !.session = replyRequest(d, ans).session_id,
                             !.n = @ + 1,
                             !.clean = @ /\ ~seq.note.done]
  /\ UNCHANGED <<mainVars, pair>>

\* POST /socratic/start answers (lines 183-187), or api throws.
seqStartResponse(ok, question) ==
  /\ seq.pc = "start"
  /\ IF ok
     THEN seq' = [seq EXCEPT
            !.d = startApply(@, seq.text, StartAnswer(seq.issued + 1, question)),
            !.pc = "idle",
            !.issued = @ + 1,
            !.k = 0,
            !.expect = <<Turn("Gemini", question)>>,
            !.note = NoReply,
            !.clean = TRUE,
            !.topic = seq.text]
     ELSE seq' = [seq EXCEPT !.pc = "idle"]
  /\ UNCHANGED <<mainVars, pair>>

\* POST /socratic/reply answers (lines 201-208), or api throws.
seqReplyResponse(ok, res) ==
  /\ seq.pc = "reply"
  /\ IF ok
     THEN seq' = [seq EXCEPT
            !.d = replyApply(@, res),
            !.pc = "idle",
            !.completed = IF res.done THEN @ \cup {seq.session} ELSE @,
            !.k = @ + 1,
            !.expect = @ \o <<Turn("You", seq.text),
                               Turn("Gemini", IF res.done THEN GreatWork
                                              ELSE res.question)>>,
            !.note = res]
     ELSE seq' = [seq EXCEPT !.pc = "idle", !.clean = FALSE]
  /\ UNCHANGED <<mainVars, pair>>

\* ------------------------------------------------------ specification
\* Page load: no card loaded and the answer hidden; SOC_SESSION is null
\* (line 167) and the sidekick pane is empty; no request is under way.
Init ==
  /\ reviewQ = InitDom.reviewQ
  /\ reviewA = InitDom.reviewA
  /\ SOC_SESSION = 0
  /\ chatBox = <<>>
  /\ chatInput = <<>>
  /\ sidekickTitle = <<>>
  /\ sidekickOutput = <<>>
  /\ calls = {}
  /\ nextCall = 1
  /\ issued = 0
  /\ completed = {}
  /\ loaded = [since |-> 0, card |-> NoCard, submits |-> 0,
               revealed |-> FALSE]
  /\ event = Event("init", 0, "", TRUE)
  /\ pair = InitPair
  /\ seq = InitSeq

ReviewStep ==
  \/ loadNext
  \/ showAnswer
  \/ \E r \in Results : submitResult(r)
  \/ \E c \in calls, ok \in BOOLEAN : submitResponse(c, ok)
  \/ \E c \in calls, ok \in BOOLEAN, card \in Cards \cup {NoCard} :
       loadNextResponse(c, ok, card)
  \/ \E c \in calls, ok \in BOOLEAN : refreshCardsResponse(c, ok)
  \/ \E c \in calls, ok \in BOOLEAN : refreshStatsResponse(c, ok)

DialogueStep ==
  \/ \E typed \in TopicInputs : startSidekick(typed)
  \/ \E typed \in AnswerInputs : sendSidekickAnswer(typed)
  \/ postNote
  \/ \E typed \in OutputInputs : editOutput(typed)
  \/ \E c \in calls, ok \in BOOLEAN, q \in Questions : startResponse(c, ok, q)
  \/ \E c \in calls, ok \in BOOLEAN, res \in ReplyAnswers :
       replyResponse(c, ok, res)
  \/ \E c \in calls, ok \in BOOLEAN : postResponse(c, ok)
  \/ \E c \in calls, ok \in BOOLEAN : refreshPostsResponse(c, ok)

PairStep ==
  \/ pairLoadNext
  \/ \E r \in Results : pairSubmitResult(r)
  \/ \E ok \in BOOLEAN, card \in Cards \cup {NoCard} : pairResponse(ok, card)

SeqStep ==
  \/ \E typed \in TopicInputs : seqStart(typed)
  \/ \E typed \in AnswerInputs : seqReply(typed)
  \/ \E ok \in BOOLEAN, q \in Questions : seqStartResponse(ok, q)
  \/ \E ok \in BOOLEAN, res \in ReplyAnswers : seqReplyResponse(ok, res)

Next == ReviewStep \/ DialogueStep

\* The review session alone, the dialogue session alone, the page, and the
\* two review sessions side by side, and the dialogue session used one call
\* at a time.
ReviewSpec == Init /\ [][ReviewStep]_vars
DialogueSpec == Init /\ [][DialogueStep]_vars
Spec == Init /\ [][Next]_vars
PairSpec == Init /\ [][PairStep]_vars
SeqSpec == Init /\ [][SeqStep]_vars

\* ============================================================ claims
\* No card is loaded: dataset.cardId is unset or the empty string.
IsEmpty == ~reviewQ.cardId.set \/ reviewQ.cardId.value = <<>>

\* The dialogue session is complete: the backend has answered done=true to
\* a reply of the session SOC_SESSION names.
IsComplete == SOC_SESSION \in completed

\* C1 (as claimed): a reply makes its /socratic/reply request only in an
\* active session: never with no session, and never once a reply of the
\* current session was answered done=true.
C1_ReplyOnlyWhileActive ==
  [][event'.kind = "reply.call" => SOC_SESSION # 0 /\ ~IsComplete]_vars

\* C2 (as claimed): when a reply is invoked and its /socratic/reply request
\* then fails, the session token, the transcript, the completion flag and the
\* generated title and content are what they were before the reply.
C2_FailedReplyLeavesSession ==
  [][\A c \in calls :
       (event.kind = "reply.call" /\ event.call = c.id
          /\ event'.kind = "reply.fail" /\ event'.call = c.id)
       => /\ SOC_SESSION' = c.pre.SOC_SESSION
          /\ chatBox' = c.pre.chatBox
          /\ sidekickTitle' = c.pre.sidekickTitle
          /\ sidekickOutput' = c.pre.sidekickOutput
          /\ (SOC_SESSION' \in completed') = (c.pre.SOC_SESSION \in completed)]_vars

\* The step that ended a submitResult whose /review/submit was acknowledged.
SubmitFinishedAcked ==
  /\ event.op = "submitResult"
  /\ event.kind \in {"next.fail", "cards.fail", "stats.ok", "stats.fail"}

\* C3 (as claimed): when a submit whose /review/submit was acknowledged
\* finishes, the session is Empty or shows the answer of a /review/next
\* request made after that submission; never the load from before it.
C3_NeverStaleAfterSubmit ==
  SubmitFinishedAcked => IsEmpty \/ loaded.since > event.call

\* C4 (as claimed): at most one /review/submit request is made for one load
\* of a card, whatever the interleaving of submit calls.
C4_OneSubmitPerLoad == loaded.submits <= 1

\* The /review/submit requests among a call's requests.
SubmitRequests(c) ==
  {i \in 1..Len(c.sent) : c.sent[i].path = "/review/submit"}

\* C5: a submit(result) invoked with a card loaded, answer hidden or shown,
\* makes exactly one /review/submit request, with the identifier of the card
\* the last /review/next response delivered and with the result given, and
\* makes it before its /review/next request.
C5_SubmitSendsLoadedCard ==
  [][/\ (event'.kind \in {"submit.call", "submit.noop"} /\ ~IsEmpty)
          => /\ event'.kind = "submit.call"
             /\ \E c \in calls' \ calls :
                  c.sent = <<[method |-> "POST", path |-> "/review/submit",
                              card_id |-> Num(loaded.card.id),
                              result |-> event'.result, session_id |-> 0,
                              text |-> <<>>, title |-> <<>>]>>
     /\ \A c \in calls' :
          c.op = "submitResult"
          => /\ SubmitRequests(c) = {1}
             /\ \A i \in 1..Len(c.sent) : c.sent[i].path = "/review/next" => i = 2
             /\ c.sent[1].card_id = JsonNumber(c.cardId) /\ c.sent[1].result = c.result]_vars

\* A submit for card 2 graded "hard", answer shown, has made its
\* /review/submit request and then its /review/next request.
C5_Witness ==
  \E c \in calls :
    /\ c.op = "submitResult" /\ c.pc = "next"
    /\ c.sent[1].card_id = Num(2) /\ c.sent[1].result = "hard"
    /\ c.sent[2].path = "/review/next"
    /\ ~reviewA.hidden

\* C6: submit in the Empty state makes no request (no invocation is
\* suspended or moves on) and leaves the loaded-card reference, the texts and
\* the answer visibility as they are.
C6_SubmitNoopWhenEmpty ==
  [][(event'.kind \in {"submit.call", "submit.noop"} /\ IsEmpty)
       => /\ event'.kind = "submit.noop"
          /\ calls' = calls
          /\ reviewQ' = reviewQ /\ reviewA' = reviewA]_vars

\* A submit returned without a request after a load that found nothing due.
C6_Witness ==
  /\ event.kind = "submit.noop"
  /\ reviewQ.cardId.set /\ reviewQ.cardId.value = <<>>
  /\ calls = {}

\* C7: a /review/next response that finds nothing due leaves the session
\* Empty with the answer hidden and blank; one that delivers a card leaves
\* that card loaded (identifier, question and answer) with the answer hidden.
C7_LoadNextOutcome ==
  event.kind = "next.ok"
  => /\ reviewA.hidden
     /\ IF loaded.card = NoCard
        THEN IsEmpty /\ reviewA.textContent = <<>>
        ELSE /\ reviewQ.cardId.set
             /\ Number(reviewQ.cardId.value) = Num(loaded.card.id)
             /\ reviewQ.textContent = loaded.card.question
             /\ reviewA.textContent = loaded.card.answer

\* The re-query of a submit (so a card was loaded) found nothing due, after
\* the answer had been revealed: the session is Empty and hidden.
C7_Witness ==
  /\ event.kind = "next.ok" /\ event.op = "submitResult"
  /\ loaded.card = NoCard
  /\ IsEmpty /\ reviewA.hidden

\* C8 (as claimed): the answer is shown only while a card is loaded.
C8_ShownImpliesLoaded == ~reviewA.hidden => ~IsEmpty

\* C9: every applied /review/next response leaves the answer hidden, only
\* showAnswer turns it from hidden to shown, and so whenever the answer is
\* shown showAnswer has run since the last applied response.
C9_ShownOnlyByReveal ==
  /\ [](~reviewA.hidden => loaded.revealed)
  /\ [][/\ event'.kind = "next.ok" => reviewA'.hidden
        /\ (reviewA.hidden /\ ~reviewA'.hidden) => event'.kind = "showAnswer"]_vars

\* The answer of a card is shown, revealed after a later load had hidden
\* the answer again, and a dialogue has been started meanwhile.
C9_Witness ==
  /\ ~reviewA.hidden /\ ~IsEmpty /\ loaded.revealed
  /\ loaded.since > 2
  /\ SOC_SESSION # 0 /\ chatBox # <<>>

\* The two sessions have finished a grading click made with a card loaded.
PairSubmitEnded == pair.last = "submit" /\ PairIdle

\* C10 (as claimed): reveal then submit(r), and submit(r) alone, make the
\* same requests and, given the same backend answers, end in the same review
\* session state, answer hidden.
C10_SameEndState ==
  PairSubmitEnded
  => /\ pair.a.sent = pair.b.sent
     /\ pair.a.dom = pair.b.dom
     /\ pair.a.dom.reviewA.hidden

\* C10 (amended): the two make the same requests.  When POST /review/submit
\* and the follow-up GET /review/next are both answered, they end in the
\* same review session state, the card handed out or Empty, answer hidden.
\* When POST /review/submit is refused, each session is left as it was when
\* the button was clicked: the same card and texts, the answer shown in the
\* session that revealed it and hidden in the other.
C10_SameCardAfterSubmit ==
  /\ pair.a.sent = pair.b.sent
  /\ (PairSubmitEnded /\ pair.reloaded)
       => /\ pair.a.dom = pair.b.dom
          /\ pair.a.dom.reviewA.hidden
  /\ (PairSubmitEnded /\ ~pair.acked)
       => /\ pair.b.dom = pair.pre
          /\ pair.a.dom = showAnswerApply(pair.pre)
          /\ pair.b.dom.reviewA.hidden /\ ~pair.a.dom.reviewA.hidden

\* Both sessions graded card 1 and were handed card 2, answer hidden.
C10_Witness ==
  /\ PairSubmitEnded /\ pair.acked /\ pair.reloaded
  /\ pair.a.dom = pair.b.dom
  /\ pair.a.dom.reviewQ.cardId.value = <<"2">>
  /\ pair.a.dom.reviewA.hidden
  /\ \E i \in 1..Len(pair.a.sent) :
       pair.a.sent[i].path = "/review/submit" /\ pair.a.sent[i].card_id = Num(1)

\* C11: a successful start made while a session exists (active or complete)
\* discards it: the token is the one the backend has just issued, never
\* issued before; the transcript is one turn, the new opening question; the
\* generated content is cleared.
C11_StartDiscardsPrior ==
  [][(event'.kind = "start.ok" /\ SOC_SESSION # 0)
       => /\ SOC_SESSION' = issued' /\ SOC_SESSION' > issued
          /\ SOC_SESSION' # SOC_SESSION
          /\ ~(SOC_SESSION' \in completed')
          /\ Len(chatBox') = 1
          /\ chatBox'[1].who = "Gemini" /\ chatBox'[1].text \in Questions
          /\ sidekickOutput' = <<>>]_vars

\* A second start has just succeeded over a session that was complete, with
\* its note generated.
C11_Witness ==
  /\ event.kind = "start.ok"
  /\ SOC_SESSION = 2 /\ 1 \in completed
  /\ chatBox = <<Turn("Gemini", <<"Q1">>)>>
  /\ sidekickOutput = <<>>

\* C12: in sequentially awaited use, after a successful start and k
\* successful replies (none sent after done=true) the transcript is the
\* opening question followed by the k answers sent, each with the turn that
\* came back, in the order sent; while a reply is under way its answer is the
\* last turn.  The session keeps its token; it is complete exactly when the
\* last reply was answered done=true, and then the content is the returned
\* content and the title the returned title (the topic, when the backend
\* returned none).
C12_TranscriptInOrder ==
  seq.clean
  => /\ seq.d.SOC_SESSION = seq.issued /\ seq.d.SOC_SESSION # 0
     /\ seq.pc = "reply"
        => seq.d.chatBox = Append(seq.expect, Turn("You", seq.text))
     /\ seq.pc = "idle"
        => /\ seq.d.chatBox = seq.expect
           /\ Len(seq.d.chatBox) = 1 + 2 * seq.k
           /\ \A i \in 1..Len(seq.d.chatBox) :
                seq.d.chatBox[i].who = (IF i % 2 = 1 THEN "Gemini" ELSE "You")
           /\ (seq.d.SOC_SESSION \in seq.completed) = seq.note.done
           /\ seq.note.done
              => /\ seq.d.sidekickOutput = seq.note.content
                 /\ seq.d.sidekickTitle =
                      (IF seq.note.title # <<>> THEN seq.note.title
                       ELSE seq.topic)

\* Start, a reply answered with a follow-up question, a second reply
\* answered done=true with a title.
C12_Witness ==
  /\ seq.clean /\ seq.pc = "idle" /\ seq.k = 2
  /\ seq.d.chatBox =
       <<Turn("Gemini", <<"Q1">>), Turn("You", <<"a">>),
         Turn("Gemini", <<"Q2">>), Turn("You", <<"b">>),
         Turn("Gemini", GreatWork)>>
  /\ seq.d.SOC_SESSION \in seq.completed
  /\ seq.d.sidekickOutput = <<"note">> /\ seq.d.sidekickTitle = <<"T">>

\* C13: validation comes before the network and changes nothing.  A start
\* or a reply that returns at its validation sends no request and leaves
\* the token, the transcript, the completion flag, the title and the content
\* as they are; and a start or a reply that does send a request sends a text
\* that is not white space only, so that a white-space-only topic or answer
\* never reaches the network.
C13_ValidationFirst ==
  [][/\ event'.kind \in {"start.noop", "reply.empty", "reply.noSession"}
          => /\ calls' = calls /\ nextCall' = nextCall
             /\ SOC_SESSION' = SOC_SESSION
             /\ chatBox' = chatBox
             /\ completed' = completed
             /\ sidekickTitle' = sidekickTitle
             /\ sidekickOutput' = sidekickOutput
     /\ event'.kind \in {"start.call", "reply.call"}
          => \A c \in calls' \ calls :
               /\ \E i \in 1..Len(c.sent[1].text) :
                    c.sent[1].text[i] \notin WhiteSpace
               /\ Len(c.sent) = 1]_vars

\* A white-space-only answer was sent off in an active session whose reply
\* is still under way: no second request, transcript as it was.
C13_Witness ==
  /\ event.kind = "reply.empty"
  /\ SOC_SESSION # 0 /\ ~IsComplete
  /\ chatInput = <<" ">>
  /\ chatBox = <<Turn("Gemini", <<"Q1">>), Turn("You", <<"b">>)>>
  /\ Cardinality(calls) = 1

\* The POST /posts requests among a call's requests.
PostRequests(c) ==
  {i \in 1..Len(c.sent) : c.sent[i].method = "POST" /\ c.sent[i].path = "/posts"}

\* No step of a publish changes the dialogue session.
PublishKeepsSession ==
  /\ SOC_SESSION' = SOC_SESSION
  /\ chatBox' = chatBox
  /\ completed' = completed
  /\ sidekickTitle' = sidekickTitle
  /\ sidekickOutput' = sidekickOutput

\* C14: publish is gated on the content alone.  With content (not blank) it
\* makes one POST /posts request carrying the trimmed content, with or
\* without a session; with blank content it makes none; an invocation makes
\* that request once and never again; and no step of it changes the token,
\* the transcript, the completion flag, the title or the content.
C14_PublishGatedOnContent ==
  [][/\ event'.kind \in {"post.call", "post.noop"}
          => IF \E i \in 1..Len(sidekickOutput) :
                  sidekickOutput[i] \notin WhiteSpace
             THEN /\ event'.kind = "post.call"
                  /\ \E c \in calls' \ calls :
                       /\ calls' = calls \cup {c}
                       /\ Len(c.sent) = 1 /\ PostRequests(c) = {1}
                       /\ c.sent[1].text = Trim(sidekickOutput)
             ELSE event'.kind = "post.noop" /\ calls' = calls
     /\ event'.op = "postNote"
          => /\ PublishKeepsSession
             /\ \A c \in calls' : c.op = "postNote" => PostRequests(c) = {1}]_vars

\* A draft typed with no session started has been published: the POST was
\* accepted and the list is being refreshed.
C14_Witness ==
  /\ event.kind = "post.ok"
  /\ SOC_SESSION = 0 /\ chatBox = <<>>
  /\ sidekickOutput = <<"x">>
  /\ \E c \in calls : c.op = "postNote" /\ Len(c.sent) = 2

\* C15: a failed review request leaves the review session as it was.
\* loadNext and submit write nothing on their way to their request, and the
\* step at which /review/next or /review/submit fails writes nothing either:
\* same card (or Empty), same texts, same answer visibility.  A submit whose
\* /review/submit failed ends there: it has made that one request and makes
\* no other, and no invocation is started in its place.
C15_FailedReviewRequest ==
  [][/\ event'.kind \in {"loadNext.call", "submit.call", "next.fail",
                        "submit.fail"}
          => reviewQ' = reviewQ /\ reviewA' = reviewA
     /\ event'.kind \in {"next.fail", "submit.fail"}
          => \E c \in calls :
               /\ c.id = event'.call
               /\ calls' = calls \ {c}
               /\ nextCall' = nextCall
               /\ event'.kind = "submit.fail"
                  => /\ Len(c.sent) = 1
                     /\ c.sent[1].path = "/review/submit"]_vars

\* The grading of a revealed card was refused: the card is still loaded,
\* its answer still shown, and nothing is under way.
C15_Witness ==
  /\ event.kind = "submit.fail"
  /\ ~IsEmpty /\ ~reviewA.hidden
  /\ loaded.submits = 1
  /\ calls = {}

\* C16: the two sessions are independent.  No step of loadNext, showAnswer
\* or submitResult changes the dialogue token, transcript, completion flag,
\* title or content, and no step of startSidekick, sendSidekickAnswer or
\* postNote changes the loaded card, the texts or the answer visibility,
\* however the two are interleaved.
C16_SessionsIndependent ==
  [][/\ event'.op \in {"loadNext", "showAnswer", "submitResult"}
          => /\ SOC_SESSION' = SOC_SESSION
             /\ chatBox' = chatBox
             /\ completed' = completed
             /\ sidekickTitle' = sidekickTitle
             /\ sidekickOutput' = sidekickOutput
     /\ event'.op \in {"startSidekick", "sendSidekickAnswer", "postNote"}
          => reviewQ' = reviewQ /\ reviewA' = reviewA]_vars

\* A card was loaded while a reply of an active dialogue was under way.
C16_Witness ==
  /\ event.kind = "next.ok" /\ ~IsEmpty
  /\ SOC_SESSION # 0
  /\ chatBox = <<Turn("Gemini", <<"Q1">>), Turn("You", <<"b">>)>>
  /\ \E c \in calls : c.op = "sendSidekickAnswer"

\* C17: overlapping loadNext calls.  Starting a loadNext cancels nothing:
\* every invocation under way stays under way.  Every successful
\* /review/next response is applied when it arrives, whether its request was
\* made before or after the one whose answer is shown: the session then
\* holds that response's card with the answer hidden, or is Empty.  So the
\* response that arrives last wins.
C17_LastResponseWins ==
  [][/\ event'.kind = "loadNext.call" => calls \subseteq calls'
     /\ event'.kind = "next.ok"
          => \E c \in calls :
               /\ c.id = event'.call /\ c.pc = "next"
               /\ loaded'.since = c.since
               /\ reviewA'.hidden
               /\ IF loaded'.card = NoCard
                  THEN /\ reviewQ'.cardId = Attr(<<>>)
                       /\ reviewA'.textContent = <<>>
                  ELSE /\ reviewQ'.cardId = Attr(ToString(loaded'.card.id))
                       /\ reviewQ'.textContent = loaded'.card.question
                       /\ reviewA'.textContent = loaded'.card.answer]_vars

\* Two loadNext calls overlapped.  The second was answered first, with
\* card 2, which the user then graded; the answer to the first arrived
\* after that, with card 1, and card 1 is what the session shows.
C17_Witness ==
  /\ event.kind = "next.ok" /\ event.call = 1 /\ event.op = "loadNext"
  /\ loaded.card = Card(1) /\ loaded.since = 2
  /\ reviewQ.cardId = Attr(<<"1">>) /\ reviewA.hidden
  /\ \E c \in calls : c.id = 3 /\ c.op = "submitResult" /\ c.cardId = Num(2)

\* C18 (as claimed): a /socratic/reply response whose request carried a
\* token that a later successful start has replaced adds no turn to the
\* transcript and sets neither the content nor the title.
C18_StaleReplyIgnored ==
  [][\A c \in calls :
       (event'.kind \in {"reply.more", "reply.done"} /\ event'.call = c.id
          /\ c.sent[1].session_id # SOC_SESSION)
       => /\ chatBox' = chatBox
          /\ sidekickOutput' = sidekickOutput
          /\ sidekickTitle' = sidekickTitle]_vars

\* C19: in every state the identifier, the question and the answer the
\* review session holds come from one /review/next response: they are those
\* of one card of the backend, the one the last applied response delivered;
\* or the session is in the Empty form, with no identifier (unset, or the
\* empty string) and an empty answer.
C19_CardFieldsAgree ==
  \/ /\ IsEmpty
     /\ reviewA.textContent = <<>>
     /\ loaded.card = NoCard
  \/ \E card \in Cards :
       /\ loaded.card = card
       /\ reviewQ.cardId.set /\ Number(reviewQ.cardId.value) = Num(card.id)
       /\ reviewQ.textContent = card.question
       /\ reviewA.textContent = card.answer

\* Card 2 is loaded, whole, while the grading of card 1 is still under way:
\* a second load overtook the one the submit will make.
C19_Witness ==
  /\ reviewQ.cardId = Attr(<<"2">>)
  /\ reviewQ.textContent = <<"q", "2">> /\ reviewA.textContent = <<"a", "2">>
  /\ \E c \in calls : c.op = "submitResult" /\ c.cardId = Num(1) /\ c.pc = "submit"

====
